---------------------------- MODULE Spec2Model ----------------------------
(***************************************************************************)
(* Model of the motorcycle repair shop directory pipeline:                 *)
(*   osm_mc_repair_extractor.py  the tag classifier of the OSM handler     *)
(*   convert_osm_to_json.py      row normalizer, country/city index and    *)
(*                               the CSV -> JSON conversion run            *)
(*   migrate_to_supabase.py      transform_shop and the batched upload of  *)
(*                               SupabaseMigrator.migrate_shops            *)
(* Python strings are sequences of one-character strings, so that strip,   *)
(* split, upper/lower, substring tests, float parsing and sorting are      *)
(* computed, not assumed.                                                  *)
(***************************************************************************)
EXTENDS Integers, Sequences, FiniteSets, TLC

VARIABLES
  pc,             \* position of the run / of the function under check
  tags,           \* classifier: tag mapping of the element
  verdict,        \* classifier: value returned by _is_motorcycle_repair_shop
  row,            \* normalizer: the CSV row given to parse_csv_row
  parsed,         \* normalizer: outcome of parse_csv_row(row)
  input_exists,   \* conversion: whether input_path exists
  rows,           \* conversion: rows of the input CSV (list(reader))
  skip_unnamed,   \* conversion: the skip_unnamed argument
  i,              \* conversion: number of rows the loop has processed
  shops,          \* conversion: accepted records / indexer: its argument
  skipped_count,  \* conversion: skipped rows
  countries,      \* the country -> cities index, as an ordered list of pairs
  output,         \* conversion: the JSON document written, or NoOutput
  stats,          \* migrator: self.stats
  transformed_shops, \* migrator: the records prepared for upload
  batch_size,     \* migrator: the batch_size argument
  db              \* migrator: rows of the remote shops table

\* the variables of SupabaseMigrator
migrator == <<stats, transformed_shops, batch_size, db>>

vars == <<pc, tags, verdict, row, parsed, input_exists, rows, skip_unnamed,
          i, shops, skipped_count, countries, output, migrator>>

\* String literals of the sources, spelled as sequences of characters.
S_empty ==
  <<>>
S_motorcycle_repair ==
  <<"m","o","t","o","r","c","y","c","l","e","_","r","e","p","a","i","r">>
S_motorcycle ==
  <<"m","o","t","o","r","c","y","c","l","e">>
S_yes ==
  <<"y","e","s">>
In_no ==
  <<"n","o">>
S_repair ==
  <<"r","e","p","a","i","r">>
In_car_repair ==
  <<"c","a","r","_","r","e","p","a","i","r">>
In_Car_Repair ==
  <<"C","a","r","_","R","e","p","a","i","r">>
In_bicycle ==
  <<"b","i","c","y","c","l","e">>
In_carpenter ==
  <<"c","a","r","p","e","n","t","e","r">>
S_AddressNotAvailable ==
  <<"A","d","d","r","e","s","s"," ","n","o","t"," ","a","v","a","i","l","a","b","l","e">>
S_Space ==
  <<" ">>
S_CommaSpace ==
  <<","," ">>
S_UnknownCity ==
  <<"U","n","k","n","o","w","n"," ","C","i","t","y">>
S_UnknownCountry ==
  <<"U","n","k","n","o","w","n"," ","C","o","u","n","t","r","y">>
S_NA ==
  <<"N","/","A">>
S_HoursNotAvailable ==
  <<"H","o","u","r","s"," ","n","o","t"," ","a","v","a","i","l","a","b","l","e">>
S_UnnamedShop ==
  <<"U","n","n","a","m","e","d"," ","S","h","o","p">>
S_0 ==
  <<"0">>
S_MotorcycleRepairShop ==
  <<"M","o","t","o","r","c","y","c","l","e"," ","R","e","p","a","i","r"," ","S","h","o","p">>
S_MotorcycleDealership ==
  <<"M","o","t","o","r","c","y","c","l","e"," ","D","e","a","l","e","r","s","h","i","p">>
S_RepairService ==
  <<"R","e","p","a","i","r"," ","S","e","r","v","i","c","e">>
S_MotorcycleShop ==
  <<"M","o","t","o","r","c","y","c","l","e"," ","S","h","o","p">>
S_nan ==
  <<"n","a","n">>
S_inf ==
  <<"i","n","f">>
S_infinity ==
  <<"i","n","f","i","n","i","t","y">>
In_Moto ==
  <<"M","o","t","o">>
In_Blank ==
  <<" "," ">>
In_MotoPadded ==
  <<" ","M","o","t","o"," ">>
In_Op ==
  <<"O","p">>
In_BMW ==
  <<"B","M","W">>
In_Berlin ==
  <<"B","e","r","l","i","n">>
In_Munich ==
  <<"M","u","n","i","c","h">>
In_Paris ==
  <<"P","a","r","i","s">>
In_de ==
  <<"d","e">>
In_XX ==
  <<"X","X">>
In_52_5 ==
  <<"5","2",".","5">>
In_13_4 ==
  <<"1","3",".","4">>
In_0_0 ==
  <<"0",".","0">>
In_neg0 ==
  <<"-","0">>
In_abc ==
  <<"a","b","c">>
In_2_35pad ==
  <<" ","2",".","3","5"," ">>
In_1_2_3 ==
  <<"1",".","2",".","3">>
In_MainSt ==
  <<"M","a","i","n"," ","S","t">>
In_12 ==
  <<"1","2">>
In_BerlinGermany ==
  <<"B","e","r","l","i","n",","," ","G","e","r","m","a","n","y">>
In_MunichGermany ==
  <<"M","u","n","i","c","h",","," ","G","e","r","m","a","n","y">>
In_UnknownCityFrance ==
  <<"U","n","k","n","o","w","n"," ","C","i","t","y",","," ","F","r","a","n","c","e">>
In_ParisFrance ==
  <<"P","a","r","i","s",","," ","F","r","a","n","c","e">>
In_NoSeparator ==
  <<"B","e","r","l","i","n">>
In_ThreeParts ==
  <<"H","a","l","l","e",","," ","S","a","a","l","e",","," ","G","e","r","m","a","n","y">>
In_EmptyCity ==
  <<","," ","S","p","a","i","n">>
In_EmptyCountry ==
  <<"R","o","m","e",","," ">>
S_AT ==
  <<"A","T">>
S_BE ==
  <<"B","E">>
S_BG ==
  <<"B","G">>
S_HR ==
  <<"H","R">>
S_CY ==
  <<"C","Y">>
S_CZ ==
  <<"C","Z">>
S_DK ==
  <<"D","K">>
S_EE ==
  <<"E","E">>
S_FI ==
  <<"F","I">>
S_FR ==
  <<"F","R">>
S_DE ==
  <<"D","E">>
S_GR ==
  <<"G","R">>
S_HU ==
  <<"H","U">>
S_IE ==
  <<"I","E">>
S_IT ==
  <<"I","T">>
S_LV ==
  <<"L","V">>
S_LT ==
  <<"L","T">>
S_LU ==
  <<"L","U">>
S_MT ==
  <<"M","T">>
S_NL ==
  <<"N","L">>
S_PL ==
  <<"P","L">>
S_PT ==
  <<"P","T">>
S_RO ==
  <<"R","O">>
S_SK ==
  <<"S","K">>
S_SI ==
  <<"S","I">>
S_ES ==
  <<"E","S">>
S_SE ==
  <<"S","E">>
S_Austria ==
  <<"A","u","s","t","r","i","a">>
S_Belgium ==
  <<"B","e","l","g","i","u","m">>
S_Bulgaria ==
  <<"B","u","l","g","a","r","i","a">>
S_Croatia ==
  <<"C","r","o","a","t","i","a">>
S_Cyprus ==
  <<"C","y","p","r","u","s">>
S_CzechRepublic ==
  <<"C","z","e","c","h"," ","R","e","p","u","b","l","i","c">>
S_Denmark ==
  <<"D","e","n","m","a","r","k">>
S_Estonia ==
  <<"E","s","t","o","n","i","a">>
S_Finland ==
  <<"F","i","n","l","a","n","d">>
S_France ==
  <<"F","r","a","n","c","e">>
S_Germany ==
  <<"G","e","r","m","a","n","y">>
S_Greece ==
  <<"G","r","e","e","c","e">>
S_Hungary ==
  <<"H","u","n","g","a","r","y">>
S_Ireland ==
  <<"I","r","e","l","a","n","d">>
S_Italy ==
  <<"I","t","a","l","y">>
S_Latvia ==
  <<"L","a","t","v","i","a">>
S_Lithuania ==
  <<"L","i","t","h","u","a","n","i","a">>
S_Luxembourg ==
  <<"L","u","x","e","m","b","o","u","r","g">>
S_Malta ==
  <<"M","a","l","t","a">>
S_Netherlands ==
  <<"N","e","t","h","e","r","l","a","n","d","s">>
S_Poland ==
  <<"P","o","l","a","n","d">>
S_Portugal ==
  <<"P","o","r","t","u","g","a","l">>
S_Romania ==
  <<"R","o","m","a","n","i","a">>
S_Slovakia ==
  <<"S","l","o","v","a","k","i","a">>
S_Slovenia ==
  <<"S","l","o","v","e","n","i","a">>
S_Spain ==
  <<"S","p","a","i","n">>
S_Sweden ==
  <<"S","w","e","d","e","n">>
\* country_map of get_country_name: code -> full name.
country_map ==
  <<<<S_AT, S_Austria>>,
    <<S_BE, S_Belgium>>,
    <<S_BG, S_Bulgaria>>,
    <<S_HR, S_Croatia>>,
    <<S_CY, S_Cyprus>>,
    <<S_CZ, S_CzechRepublic>>,
    <<S_DK, S_Denmark>>,
    <<S_EE, S_Estonia>>,
    <<S_FI, S_Finland>>,
    <<S_FR, S_France>>,
    <<S_DE, S_Germany>>,
    <<S_GR, S_Greece>>,
    <<S_HU, S_Hungary>>,
    <<S_IE, S_Ireland>>,
    <<S_IT, S_Italy>>,
    <<S_LV, S_Latvia>>,
    <<S_LT, S_Lithuania>>,
    <<S_LU, S_Luxembourg>>,
    <<S_MT, S_Malta>>,
    <<S_NL, S_Netherlands>>,
    <<S_PL, S_Poland>>,
    <<S_PT, S_Portugal>>,
    <<S_RO, S_Romania>>,
    <<S_SK, S_Slovakia>>,
    <<S_SI, S_Slovenia>>,
    <<S_ES, S_Spain>>,
    <<S_SE, S_Sweden>>>>

(***************************************************************************)
(* Python str operations                                                   *)
(***************************************************************************)
\* Characters in code point order (the order str comparison uses).
Chars ==
  <<"\t"," ","+",",","-",".","/",
    "0","1","2","3","4","5","6","7","8","9",":",
    "A","B","C","D","E","F","G","H","I","J","K","L","M",
    "N","O","P","Q","R","S","T","U","V","W","X","Y","Z","_",
    "a","b","c","d","e","f","g","h","i","j","k","l","m",
    "n","o","p","q","r","s","t","u","v","w","x","y","z">>

Ord(c) == CHOOSE k \in 1..Len(Chars) : Chars[k] = c

UpperChars ==
  <<"A","B","C","D","E","F","G","H","I","J","K","L","M",
    "N","O","P","Q","R","S","T","U","V","W","X","Y","Z">>

LowerChars ==
  <<"a","b","c","d","e","f","g","h","i","j","k","l","m",
    "n","o","p","q","r","s","t","u","v","w","x","y","z">>

Digits == <<"0","1","2","3","4","5","6","7","8","9">>

Whitespace == {" ", "\t"}

\* str.upper() / str.lower()
UpperChar(c) ==
  IF \E k \in 1..Len(LowerChars) : LowerChars[k] = c
  THEN UpperChars[CHOOSE k \in 1..Len(LowerChars) : LowerChars[k] = c]
  ELSE c

LowerChar(c) ==
  IF \E k \in 1..Len(UpperChars) : UpperChars[k] = c
  THEN LowerChars[CHOOSE k \in 1..Len(UpperChars) : UpperChars[k] = c]
  ELSE c

Upper(s) == [k \in 1..Len(s) |-> UpperChar(s[k])]

Lower(s) == [k \in 1..Len(s) |-> LowerChar(s[k])]

\* str.find(sub) + 1: position of the first occurrence of sub in s, 0 if none
IndexOf(s, sub) ==
  LET hits == {k \in 1..(Len(s) - Len(sub) + 1) :
                 SubSeq(s, k, k + Len(sub) - 1) = sub}
  IN IF hits = {} THEN 0 ELSE CHOOSE k \in hits : \A h \in hits : k <= h

\* sub in s
Contains(s, sub) == IndexOf(s, sub) > 0

\* str.strip()
RECURSIVE LStrip(_)
LStrip(s) ==
  IF s # <<>> /\ Head(s) \in Whitespace THEN LStrip(Tail(s)) ELSE s

RECURSIVE RStrip(_)
RStrip(s) ==
  IF s # <<>> /\ s[Len(s)] \in Whitespace
  THEN RStrip(SubSeq(s, 1, Len(s) - 1))
  ELSE s

Strip(s) == RStrip(LStrip(s))

\* str.split(sep), sep non-empty
RECURSIVE Split(_, _)
Split(s, sep) ==
  LET k == IndexOf(s, sep)
  IN IF k = 0
     THEN <<s>>
     ELSE <<SubSeq(s, 1, k - 1)>> \o Split(SubSeq(s, k + Len(sep), Len(s)), sep)

\* a < b for str: lexicographic by code point, a proper prefix first
RECURSIVE StrLess(_, _)
StrLess(a, b) ==
  IF b = <<>> THEN FALSE
  ELSE IF a = <<>> THEN TRUE
  ELSE IF Head(a) # Head(b) THEN Ord(Head(a)) < Ord(Head(b))
  ELSE StrLess(Tail(a), Tail(b))

\* sorted(S) for a set of str
RECURSIVE SortedStrs(_)
SortedStrs(S) ==
  IF S = {} THEN <<>>
  ELSE LET m == CHOOSE x \in S : \A y \in S : ~StrLess(y, x)
       IN <<m>> \o SortedStrs(S \ {m})

\* None, as the value of a cell or of dict.get without default
PyNone == <<"None">>

\* truth value of a str-or-None
Truthy(v) == v # PyNone /\ v # <<>>

\* a or b
Or(a, b) == IF Truthy(a) THEN a ELSE b

\* d.get(k) and d.get(k, default)
Get(d, k) == IF k \in DOMAIN d THEN d[k] ELSE PyNone

GetOr(d, k, default) == IF k \in DOMAIN d THEN d[k] ELSE default

(***************************************************************************)
(* osm_mc_repair_extractor.py: the classifier                              *)
(***************************************************************************)
\* MotorcycleRepairShopHandler._is_motorcycle_repair_shop, with a plausible
\* slip: the craft test of the service branch compares instead of searching.
is_motorcycle_repair_shop_craft_equal(t) ==
  IF Get(t, "shop") \in {S_motorcycle_repair, S_motorcycle} THEN TRUE
  ELSE IF Get(t, "amenity") = S_motorcycle_repair THEN TRUE
  ELSE IF Get(t, "service:vehicle:motorcycle") = S_yes
          /\ (\/ Get(t, "service:vehicle:repair") = S_yes
              \/ Get(t, "repair") = S_yes
              \/ GetOr(t, "craft", S_empty) = S_repair) THEN TRUE
  ELSE IF Get(t, "craft") = S_motorcycle_repair THEN TRUE
  ELSE FALSE

\* MotorcycleRepairShopHandler._is_motorcycle_repair_shop
is_motorcycle_repair_shop(t) ==
  IF Get(t, "shop") \in {S_motorcycle_repair, S_motorcycle} THEN TRUE
  ELSE IF Get(t, "amenity") = S_motorcycle_repair THEN TRUE
  ELSE IF Get(t, "service:vehicle:motorcycle") = S_yes
          /\ (\/ Get(t, "service:vehicle:repair") = S_yes
              \/ Get(t, "repair") = S_yes
              \/ Contains(GetOr(t, "craft", S_empty), S_repair)) THEN TRUE
  ELSE IF Get(t, "craft") = S_motorcycle_repair THEN TRUE
  ELSE FALSE

(***************************************************************************)
(* float(str), for the inputs used here: surrounding whitespace, an        *)
(* optional sign, then decimal digits with at most one point, or nan / inf *)
(* / infinity in any case.  Exponents and digit-group underscores do not   *)
(* occur in the inputs and are not parsed.  A number is kept exactly, as   *)
(* sign, digits (mant) and number of fractional digits (exp).              *)
(***************************************************************************)
NoneFloat == [kind |-> "None", neg |-> FALSE, mant |-> 0, exp |-> 0]

IsDigit(c) == \E k \in 1..Len(Digits) : Digits[k] = c

DigitVal(c) == (CHOOSE k \in 1..Len(Digits) : Digits[k] = c) - 1

RECURSIVE DigitsVal(_)
DigitsVal(s) ==
  IF s = <<>> THEN 0
  ELSE DigitsVal(SubSeq(s, 1, Len(s) - 1)) * 10 + DigitVal(s[Len(s)])

AllDigits(s) == \A k \in 1..Len(s) : IsDigit(s[k])

\* float(s): [ok |-> FALSE] stands for ValueError
ParseFloat(s) ==
  LET t     == Strip(s)
      signd == t # <<>> /\ Head(t) \in {"+", "-"}
      neg   == t # <<>> /\ Head(t) = "-"
      body  == IF signd THEN Tail(t) ELSE t
      parts == Split(body, <<".">>)
      int   == parts[1]
      frac  == IF Len(parts) = 2 THEN parts[2] ELSE <<>>
  IN IF Lower(body) = S_nan
     THEN [ok |-> TRUE, val |-> [kind |-> "nan", neg |-> neg, mant |-> 0, exp |-> 0]]
     ELSE IF Lower(body) \in {S_inf, S_infinity}
     THEN [ok |-> TRUE, val |-> [kind |-> "inf", neg |-> neg, mant |-> 0, exp |-> 0]]
     ELSE IF /\ Len(parts) <= 2
             /\ AllDigits(int) /\ AllDigits(frac)
             /\ Len(int) + Len(frac) >= 1
     THEN [ok |-> TRUE,
           val |-> [kind |-> "num", neg |-> neg,
                    mant |-> DigitsVal(int \o frac), exp |-> Len(frac)]]
     ELSE [ok |-> FALSE, val |-> NoneFloat]

\* truth value of a float-or-None: None and zero (0.0, -0.0) are false
FloatTruthy(f) == f.kind # "None" /\ ~(f.kind = "num" /\ f.mant = 0)

(***************************************************************************)
(* convert_osm_to_json.py: the row normalizer                              *)
(***************************************************************************)
\* get_country_name: country_map.get(country_code.upper(), country_code)
get_country_name(country_code) ==
  LET key  == Upper(country_code)
      hits == {k \in 1..Len(country_map) : country_map[k][1] = key}
  IN IF hits = {} THEN country_code
     ELSE country_map[CHOOSE k \in hits : TRUE][2]

\* determine_business_type raises AttributeError when .lower() is reached on
\* a None cell (a key present with value None, which row.get returns as is)
business_type_raises(r) ==
  LET shop_type == GetOr(r, "shop_type", S_empty)
      amenity   == GetOr(r, "amenity", S_empty)
      craft     == GetOr(r, "craft", S_empty)
  IN /\ ~(\/ shop_type = S_motorcycle_repair
          \/ amenity = S_motorcycle_repair
          \/ craft = S_motorcycle_repair)
     /\ shop_type # S_motorcycle
     /\ \/ shop_type = PyNone
        \/ (~Contains(Lower(shop_type), S_repair) /\ amenity = PyNone)

\* determine_business_type, with a plausible slip: the substring tests
\* without .lower()
determine_business_type_case_sensitive(r) ==
  LET shop_type == GetOr(r, "shop_type", S_empty)
      amenity   == GetOr(r, "amenity", S_empty)
      craft     == GetOr(r, "craft", S_empty)
  IN IF \/ shop_type = S_motorcycle_repair
        \/ amenity = S_motorcycle_repair
        \/ craft = S_motorcycle_repair
     THEN S_MotorcycleRepairShop
     ELSE IF shop_type = S_motorcycle THEN S_MotorcycleDealership
     ELSE IF \/ Contains(shop_type, S_repair)
             \/ Contains(amenity, S_repair)
     THEN S_RepairService
     ELSE S_MotorcycleShop

\* determine_business_type
determine_business_type(r) ==
  LET shop_type == GetOr(r, "shop_type", S_empty)
      amenity   == GetOr(r, "amenity", S_empty)
      craft     == GetOr(r, "craft", S_empty)
  IN IF \/ shop_type = S_motorcycle_repair
        \/ amenity = S_motorcycle_repair
        \/ craft = S_motorcycle_repair
     THEN S_MotorcycleRepairShop
     ELSE IF shop_type = S_motorcycle THEN S_MotorcycleDealership
     ELSE IF \/ Contains(Lower(shop_type), S_repair)
             \/ Contains(Lower(amenity), S_repair)
     THEN S_RepairService
     ELSE S_MotorcycleShop

\* parse_csv_row, "Build full address", with a plausible slip: a house
\* number without a street is kept as the address
build_address_housenumber_alone(r) ==
  IF Truthy(Get(r, "address_street"))
  THEN LET street      == r["address_street"]
           housenumber == GetOr(r, "address_housenumber", S_empty)
       IN IF Truthy(housenumber)
          THEN street \o S_Space \o housenumber
          ELSE street
  ELSE IF Truthy(Get(r, "address_housenumber")) THEN r["address_housenumber"]
  ELSE S_AddressNotAvailable

\* parse_csv_row, "Build full address"
build_address(r) ==
  IF Truthy(Get(r, "address_street"))
  THEN LET street      == r["address_street"]
           housenumber == GetOr(r, "address_housenumber", S_empty)
       IN IF Truthy(housenumber)
          THEN street \o S_Space \o housenumber
          ELSE street
  ELSE S_AddressNotAvailable

\* parse_csv_row, "Determine country name", with a plausible slip: the two
\* tests in the other order, so that the source file wins over the OSM data
resolve_country_source_first(r) ==
  LET country_code   == Strip(GetOr(r, "address_country", S_empty))
      source_country == Strip(GetOr(r, "source_country", S_empty))
  IN IF source_country # <<>> THEN source_country
     ELSE IF country_code # <<>> THEN get_country_name(country_code)
     ELSE S_empty

\* parse_csv_row, "Determine country name (priority: OSM data, then source file)"
resolve_country(r) ==
  LET country_code   == Strip(GetOr(r, "address_country", S_empty))
      source_country == Strip(GetOr(r, "source_country", S_empty))
  IN IF country_code # <<>> THEN get_country_name(country_code)
     ELSE IF source_country # <<>> THEN source_country
     ELSE S_empty

\* parse_csv_row, "Build city string", with a plausible slip: the comment
\* of the code taken literally ("or just Country if no city")
compose_city_just_country(city_name, country_name) ==
  IF city_name # <<>> /\ country_name # <<>>
  THEN city_name \o S_CommaSpace \o country_name
  ELSE IF country_name # <<>> THEN country_name
  ELSE IF city_name # <<>> THEN city_name \o S_CommaSpace \o S_UnknownCountry
  ELSE S_UnknownCity \o S_CommaSpace \o S_UnknownCountry

\* parse_csv_row, "Build city string"
compose_city(city_name, country_name) ==
  IF city_name # <<>> /\ country_name # <<>>
  THEN city_name \o S_CommaSpace \o country_name
  ELSE IF country_name # <<>> THEN S_UnknownCity \o S_CommaSpace \o country_name
  ELSE IF city_name # <<>> THEN city_name \o S_CommaSpace \o S_UnknownCountry
  ELSE S_UnknownCity \o S_CommaSpace \o S_UnknownCountry

\* .strip() on a None cell raises AttributeError
strip_raises(r) ==
  \E k \in {"address_city", "address_country", "source_country"} :
    GetOr(r, k, S_empty) = PyNone

\* parse_csv_row, "Get coordinates", with the parse error swallowed: an
\* unparsable value gives None instead of raising
parse_coordinate_fail_closed(r, k) ==
  IF Truthy(Get(r, k))
  THEN [ok |-> TRUE, val |-> ParseFloat(r[k]).val]
  ELSE [ok |-> TRUE, val |-> NoneFloat]

\* parse_csv_row, "Get coordinates", with a plausible slip: the longitude line
\* copied from the latitude line with the key left unchanged
parse_coordinate_latitude_key(r, k) ==
  IF Truthy(Get(r, "latitude"))
  THEN ParseFloat(r["latitude"])
  ELSE [ok |-> TRUE, val |-> NoneFloat]

\* parse_csv_row, "Get coordinates":
\*   float(row[k]) if row.get(k) else None      (ok = FALSE: ValueError)
parse_coordinate(r, k) ==
  IF Truthy(Get(r, k)) THEN ParseFloat(r[k]) ELSE [ok |-> TRUE, val |-> NoneFloat]

\* parse_csv_row, "Get name (fallback to operator or brand if no name)"
resolve_name(r) ==
  Strip(Or(Get(r, "name"), Or(Get(r, "operator"), Or(Get(r, "brand"), S_UnnamedShop))))

\* value of `parsed` before parse_csv_row has run
NoShop == [raised |-> FALSE, shop |-> <<>>]

\* parse_csv_row: raised = TRUE when the call ends in an exception, else
\* shop is the dict returned
parse_csv_row(r) ==
  LET lat == parse_coordinate(r, "latitude")
      lon == parse_coordinate(r, "longitude")
  IN IF strip_raises(r) \/ ~lat.ok \/ ~lon.ok \/ business_type_raises(r)
     THEN [raised |-> TRUE, shop |-> <<>>]
     ELSE [raised |-> FALSE,
           shop |->
             [name          |-> resolve_name(r),
              address       |-> build_address(r),
              city          |-> compose_city(
                                  Strip(GetOr(r, "address_city", S_empty)),
                                  resolve_country(r)),
              phone         |-> Or(Get(r, "phone"), Or(Get(r, "mobile"), S_NA)),
              website       |-> Or(Get(r, "website"), S_NA),
              rating        |-> S_NA,
              reviews_count |-> S_0,
              hours         |-> Or(Get(r, "opening_hours"), S_HoursNotAvailable),
              latitude      |-> lat.val,
              longitude     |-> lon.val,
              business_type |-> determine_business_type(r)]]

(***************************************************************************)
(* convert_osm_to_json.py: the country/city index                          *)
(***************************************************************************)
\* countries[country].add(city) on a defaultdict(set)
dict_add(d, country, city) ==
  IF country \in DOMAIN d
  THEN [d EXCEPT ![country] = @ \cup {city}]
  ELSE [c \in DOMAIN d \cup {country} |-> IF c = country THEN {city} ELSE d[c]]

\* loop body of build_countries_dict, with a plausible slip: the defaultdict
\* entry of the country is looked up before the city is tested, which
\* inserts the country with an empty set
index_shop_touch_first(d, shop) ==
  LET city_field == GetOr(shop, "city", S_empty)
  IN IF Contains(city_field, S_CommaSpace)
     THEN LET parts   == Split(city_field, S_CommaSpace)
              city    == Strip(parts[1])
              country == Strip(parts[Len(parts)])
              touched == [c \in DOMAIN d \cup {country} |->
                            IF c \in DOMAIN d THEN d[c] ELSE {}]
          IN IF city # <<>> /\ country # <<>>
             THEN dict_add(d, country, city)
             ELSE touched
     ELSE d

\* loop body of build_countries_dict: one shop folded into the dict
index_shop(d, shop) ==
  LET city_field == GetOr(shop, "city", S_empty)
  IN IF Contains(city_field, S_CommaSpace)
     THEN LET parts   == Split(city_field, S_CommaSpace)
              city    == Strip(parts[1])
              country == Strip(parts[Len(parts)])
          IN IF city # <<>> /\ country # <<>>
             THEN dict_add(d, country, city)
             ELSE d
     ELSE d

\* the for loop of build_countries_dict over shops[1..n]
RECURSIVE index_shops(_, _)
index_shops(ss, n) ==
  IF n = 0 THEN <<>> ELSE index_shop(index_shops(ss, n - 1), ss[n])

\* the countries in the order in which the loop of build_countries_dict
\* first inserts them into the dict
RECURSIVE insertion_order(_, _)
insertion_order(ss, n) ==
  IF n = 0 THEN <<>>
  ELSE LET new == DOMAIN index_shops(ss, n) \ DOMAIN index_shops(ss, n - 1)
       IN IF new = {} THEN insertion_order(ss, n - 1)
          ELSE Append(insertion_order(ss, n - 1), CHOOSE c \in new : TRUE)

\* build_countries_dict, with a plausible slip: countries.items() is not
\* sorted, so the dict keeps the order of insertion
build_countries_dict_unsorted_keys(ss) ==
  LET d    == index_shops(ss, Len(ss))
      keys == insertion_order(ss, Len(ss))
  IN [k \in 1..Len(keys) |-> <<keys[k], SortedStrs(d[keys[k]])>>]

\* build_countries_dict: the dict comprehension over sorted(countries.items()),
\* as the list of (country, sorted cities) in the order of the returned dict
build_countries_dict(ss) ==
  LET d    == index_shops(ss, Len(ss))
      keys == SortedStrs(DOMAIN d)
  IN [k \in 1..Len(keys) |-> <<keys[k], SortedStrs(d[keys[k]])>>]

(***************************************************************************)
(* convert_osm_to_json.py: convert_csv_to_json                             *)
(***************************************************************************)
\* body of the for loop, with a plausible slip: the location test looks at
\* the latitude only
loop_body_latitude_only(ss, skipped, r, skip) ==
  LET p == parse_csv_row(r)
  IN IF p.raised
     THEN [shops |-> ss, skipped_count |-> skipped + 1, pc |-> "processing"]
     ELSE IF skip /\ (p.shop.name = S_UnnamedShop \/ p.shop.name = <<>>)
     THEN [shops |-> ss, skipped_count |-> skipped + 1, pc |-> "processing"]
     ELSE IF ~FloatTruthy(p.shop.latitude)
     THEN [shops |-> ss, skipped_count |-> skipped + 1, pc |-> "processing"]
     ELSE [shops |-> Append(ss, p.shop), skipped_count |-> skipped,
           pc |-> "processing"]

\* body of the for loop, with a plausible slip: no try/except around the
\* row, so that an exception of parse_csv_row ends the run
loop_body_no_except(ss, skipped, r, skip) ==
  LET p == parse_csv_row(r)
  IN IF p.raised
     THEN [shops |-> ss, skipped_count |-> skipped, pc |-> "failed"]
     ELSE IF skip /\ (p.shop.name = S_UnnamedShop \/ p.shop.name = <<>>)
     THEN [shops |-> ss, skipped_count |-> skipped + 1, pc |-> "processing"]
     ELSE IF ~FloatTruthy(p.shop.latitude) \/ ~FloatTruthy(p.shop.longitude)
     THEN [shops |-> ss, skipped_count |-> skipped + 1, pc |-> "processing"]
     ELSE [shops |-> Append(ss, p.shop), skipped_count |-> skipped,
           pc |-> "processing"]

\* body of the for loop, with a plausible slip: the except branch does not
\* count the row
loop_body_error_uncounted(ss, skipped, r, skip) ==
  LET p == parse_csv_row(r)
  IN IF p.raised
     THEN [shops |-> ss, skipped_count |-> skipped, pc |-> "processing"]
     ELSE IF skip /\ (p.shop.name = S_UnnamedShop \/ p.shop.name = <<>>)
     THEN [shops |-> ss, skipped_count |-> skipped + 1, pc |-> "processing"]
     ELSE IF ~FloatTruthy(p.shop.latitude) \/ ~FloatTruthy(p.shop.longitude)
     THEN [shops |-> ss, skipped_count |-> skipped + 1, pc |-> "processing"]
     ELSE [shops |-> Append(ss, p.shop), skipped_count |-> skipped,
           pc |-> "processing"]

\* body of the for loop, with a plausible slip: the accepted record is put
\* at the front of the list
loop_body_prepend(ss, skipped, r, skip) ==
  LET p == parse_csv_row(r)
  IN IF p.raised
     THEN [shops |-> ss, skipped_count |-> skipped + 1, pc |-> "processing"]
     ELSE IF skip /\ (p.shop.name = S_UnnamedShop \/ p.shop.name = <<>>)
     THEN [shops |-> ss, skipped_count |-> skipped + 1, pc |-> "processing"]
     ELSE IF ~FloatTruthy(p.shop.latitude) \/ ~FloatTruthy(p.shop.longitude)
     THEN [shops |-> ss, skipped_count |-> skipped + 1, pc |-> "processing"]
     ELSE [shops |-> <<p.shop>> \o ss, skipped_count |-> skipped,
           pc |-> "processing"]

\* body of the for loop, with a plausible slip: the location filter skips
\* a record only when both coordinates are missing
loop_body_location_and(ss, skipped, r, skip) ==
  LET p == parse_csv_row(r)
  IN IF p.raised
     THEN [shops |-> ss, skipped_count |-> skipped + 1, pc |-> "processing"]
     ELSE IF skip /\ (p.shop.name = S_UnnamedShop \/ p.shop.name = <<>>)
     THEN [shops |-> ss, skipped_count |-> skipped + 1, pc |-> "processing"]
     ELSE IF ~FloatTruthy(p.shop.latitude) /\ ~FloatTruthy(p.shop.longitude)
     THEN [shops |-> ss, skipped_count |-> skipped + 1, pc |-> "processing"]
     ELSE [shops |-> Append(ss, p.shop), skipped_count |-> skipped,
           pc |-> "processing"]

\* body of the for loop of convert_csv_to_json for one row: the try block,
\* its two filters and the except branch
loop_body(ss, skipped, r, skip) ==
  LET p == parse_csv_row(r)
  IN IF p.raised
     THEN [shops |-> ss, skipped_count |-> skipped + 1, pc |-> "processing"]
     ELSE IF skip /\ (p.shop.name = S_UnnamedShop \/ p.shop.name = <<>>)
     THEN [shops |-> ss, skipped_count |-> skipped + 1, pc |-> "processing"]
     ELSE IF ~FloatTruthy(p.shop.latitude) \/ ~FloatTruthy(p.shop.longitude)
     THEN [shops |-> ss, skipped_count |-> skipped + 1, pc |-> "processing"]
     ELSE [shops |-> Append(ss, p.shop), skipped_count |-> skipped,
           pc |-> "processing"]

\* the for loop of convert_csv_to_json run over a whole list of rows
RECURSIVE run_rows(_, _)
run_rows(rs, skip) ==
  IF rs = <<>>
  THEN [shops |-> <<>>, skipped_count |-> 0, pc |-> "processing"]
  ELSE LET before == run_rows(SubSeq(rs, 1, Len(rs) - 1), skip)
       IN IF before.pc = "processing"
          THEN loop_body(before.shops, before.skipped_count, rs[Len(rs)], skip)
          ELSE before

\* the output file: absent, or holding a document {shops, countries}
NoOutput == [exists |-> FALSE, shops |-> <<>>, countries |-> <<>>]

\* "Check if input exists", with a plausible slip: a missing input is
\* treated as an empty one and the run goes on
CheckInput_missing_as_empty ==
  /\ pc = "idle"
  /\ pc' = "loading"
  /\ UNCHANGED <<migrator, tags, verdict, row, parsed, input_exists, rows, skip_unnamed,
                 i, shops, skipped_count, countries, output>>

\* "Check if input exists": sys.exit(1) when the input file is missing
CheckInput ==
  /\ pc = "idle"
  /\ pc' = IF input_exists THEN "loading" ELSE "failed"
  /\ UNCHANGED <<migrator, tags, verdict, row, parsed, input_exists, rows, skip_unnamed,
                 i, shops, skipped_count, countries, output>>

\* shops = [], skipped_count = 0, rows = list(reader)
ReadCsv ==
  /\ pc = "loading"
  /\ shops' = <<>>
  /\ skipped_count' = 0
  /\ i' = 0
  /\ pc' = "processing"
  /\ UNCHANGED <<migrator, tags, verdict, row, parsed, input_exists, rows, skip_unnamed,
                 countries, output>>

\* one iteration of "for i, row in enumerate(rows, 1)"
ProcessRow ==
  /\ pc = "processing"
  /\ i < Len(rows)
  /\ LET next == loop_body(shops, skipped_count, rows[i + 1], skip_unnamed)
     IN /\ shops' = next.shops
        /\ skipped_count' = next.skipped_count
        /\ pc' = next.pc
  /\ i' = i + 1
  /\ UNCHANGED <<migrator, tags, verdict, row, parsed, input_exists, rows, skip_unnamed,
                 countries, output>>

\* the end of the loop, with a plausible slip: the loop may be left before
\* the last row is read
FinishLoop_early ==
  /\ pc = "processing"
  /\ pc' = "indexing"
  /\ UNCHANGED <<migrator, tags, verdict, row, parsed, input_exists, rows, skip_unnamed,
                 i, shops, skipped_count, countries, output>>

\* the loop is exhausted: the conversion summary is printed
FinishLoop ==
  /\ pc = "processing"
  /\ i = Len(rows)
  /\ pc' = "indexing"
  /\ UNCHANGED <<migrator, tags, verdict, row, parsed, input_exists, rows, skip_unnamed,
                 i, shops, skipped_count, countries, output>>

\* countries = build_countries_dict(shops)
BuildIndex ==
  /\ pc = "indexing"
  /\ countries' = build_countries_dict(shops)
  /\ pc' = "writing"
  /\ UNCHANGED <<migrator, tags, verdict, row, parsed, input_exists, rows, skip_unnamed,
                 i, shops, skipped_count, output>>

\* data = {'shops': shops, 'countries': countries}; json.dump(data, f)
WriteJson ==
  /\ pc = "writing"
  /\ output' = [exists |-> TRUE, shops |-> shops, countries |-> countries]
  /\ pc' = "done"
  /\ UNCHANGED <<migrator, tags, verdict, row, parsed, input_exists, rows, skip_unnamed,
                 i, shops, skipped_count, countries>>

\* further input values
In_nan ==
  <<"N","a","N">>
In_France ==
  <<"F","r","a","n","c","e">>
In_555 ==
  <<"5","5","5">>
In_666 ==
  <<"6","6","6">>

(***************************************************************************)
(* migrate_to_supabase.py: SupabaseMigrator                                *)
(***************************************************************************)
\* self.stats after __init__
ZeroStats ==
  [shops_migrated |-> 0, shops_failed |-> 0,
   countries_created |-> 0, cities_created |-> 0]

\* shop.get(k) for a number-or-None field
GetFloat(d, k) == IF k \in DOMAIN d THEN d[k] ELSE NoneFloat

\* transform_shop: isNone = TRUE when the except branch returns None (here:
\* `', ' in city_field` with a null city), else rec is the dict returned
transform_shop(shop) ==
  LET city_field   == GetOr(shop, "city", S_empty)
      has_sep      == Contains(city_field, S_CommaSpace)
      parts        == Split(city_field, S_CommaSpace)
      city_name    == IF has_sep THEN Strip(parts[1]) ELSE PyNone
      country_name == IF has_sep THEN Strip(parts[Len(parts)]) ELSE PyNone
      address      == GetOr(shop, "address", S_empty)
      phone        == Get(shop, "phone")
      website      == Get(shop, "website")
      hours        == Get(shop, "hours")
      latitude     == GetFloat(shop, "latitude")
      longitude    == GetFloat(shop, "longitude")
  IN IF city_field = PyNone
     THEN [isNone |-> TRUE, rec |-> <<>>]
     ELSE [isNone |-> FALSE,
           rec |->
             [name            |-> Get(shop, "name"),
              business_type   |-> GetOr(shop, "business_type", S_MotorcycleShop),
              latitude        |-> IF FloatTruthy(latitude) THEN latitude
                                  ELSE NoneFloat,
              longitude       |-> IF FloatTruthy(longitude) THEN longitude
                                  ELSE NoneFloat,
              address_street  |-> IF Truthy(address) /\ address # S_AddressNotAvailable
                                  THEN Split(address, S_CommaSpace)[1]
                                  ELSE PyNone,
              address_city    |-> IF city_name = S_UnknownCity THEN PyNone
                                  ELSE city_name,
              address_country |-> IF country_name = S_UnknownCountry THEN PyNone
                                  ELSE country_name,
              phone           |-> IF phone = S_NA THEN PyNone ELSE phone,
              website         |-> IF website = S_NA THEN PyNone ELSE website,
              opening_hours   |-> IF hours = S_HoursNotAvailable THEN PyNone
                                  ELSE hours]]

\* migrate_shops, "Transform all shops first": one iteration of the loop
TransformShop ==
  /\ pc = "transforming"
  /\ i < Len(shops)
  /\ LET transformed == transform_shop(shops[i + 1])
     IN IF /\ ~transformed.isNone
           /\ FloatTruthy(transformed.rec.latitude)
           /\ FloatTruthy(transformed.rec.longitude)
        THEN /\ transformed_shops' = Append(transformed_shops, transformed.rec)
             /\ stats' = stats
        ELSE /\ transformed_shops' = transformed_shops
             /\ stats' = [stats EXCEPT !.shops_failed = @ + 1]
  /\ i' = i + 1
  /\ UNCHANGED <<pc, tags, verdict, row, parsed, input_exists, rows,
                 skip_unnamed, shops, skipped_count, countries, output,
                 batch_size, db>>

\* migrate_shops: the transform loop is exhausted, the upload loop starts
\* with i = 0
StartUpload ==
  /\ pc = "transforming"
  /\ i = Len(shops)
  /\ pc' = "uploading"
  /\ i' = 0
  /\ UNCHANGED <<migrator, tags, verdict, row, parsed, input_exists, rows,
                 skip_unnamed, shops, skipped_count, countries, output>>

\* migrate_shops, "Upload in batches": one iteration of
\* "for i in range(0, len(transformed_shops), batch_size)".  The insert is a
\* call to the remote table: it stores the whole batch, or raises and stores
\* nothing of it; the except branch prints and continues.
UploadBatch ==
  /\ pc = "uploading"
  /\ i < Len(transformed_shops)
  /\ LET last  == IF i + batch_size < Len(transformed_shops)
                  THEN i + batch_size ELSE Len(transformed_shops)
         batch == SubSeq(transformed_shops, i + 1, last)
     IN \E inserted \in BOOLEAN :
          IF inserted
          THEN /\ db' = db \o batch
               /\ stats' = [stats EXCEPT !.shops_migrated = @ + Len(batch)]
          ELSE /\ db' = db
               /\ stats' = stats
  /\ i' = i + batch_size
  /\ UNCHANGED <<pc, tags, verdict, row, parsed, input_exists, rows,
                 skip_unnamed, shops, skipped_count, countries, output,
                 transformed_shops, batch_size>>

\* the upload loop is exhausted; print_summary reports self.stats
PrintSummary ==
  /\ pc = "uploading"
  /\ i >= Len(transformed_shops)
  /\ pc' = "migrated"
  /\ UNCHANGED <<migrator, tags, verdict, row, parsed, input_exists, rows,
                 skip_unnamed, i, shops, skipped_count, countries, output>>

(***************************************************************************)
(* Inputs                                                                  *)
(***************************************************************************)
MaxRows == 2

MaxShops == 3

BoundedSeq(S, n) == UNION {[1..k -> S] : k \in 0..n}

\* the header of the CSV the extractor writes (export_to_csv, fieldnames):
\* csv.DictReader gives every row these keys
Columns ==
  {"osm_id", "osm_type", "latitude", "longitude",
   "name", "shop_type", "amenity", "craft", "brand", "operator",
   "address_street", "address_housenumber", "address_city",
   "address_postcode", "address_country",
   "phone", "mobile", "email", "website", "opening_hours",
   "service_motorcycle", "service_repair", "source_country"}

\* a row with every cell empty
EmptyRow == [c \in Columns |-> S_empty]

\* EmptyRow with the cells of f put in
WithCells(f) == f @@ EmptyRow

\* tag mappings given to the classifier: each key absent or one of a few values
TagValues(k) ==
  CASE k = "shop"    -> {S_motorcycle_repair, S_motorcycle, In_bicycle}
    [] k = "amenity" -> {S_motorcycle_repair, In_car_repair}
    [] k = "craft"   -> {S_motorcycle_repair, In_car_repair, S_repair, In_carpenter}
    [] OTHER         -> {S_yes, In_no}

TagKeys ==
  {"shop", "amenity", "craft", "service:vehicle:motorcycle",
   "service:vehicle:repair", "repair"}

TagMaps ==
  UNION {{t \in [ks -> UNION {TagValues(k) : k \in ks}] :
            \A k \in ks : t[k] \in TagValues(k)} : ks \in SUBSET TagKeys}

\* rows given to parse_csv_row alone: three slices, each the product of the
\* cells one part of the function reads
NameCoordRows ==
  {WithCells([name |-> n, operator |-> o, brand |-> b,
              latitude |-> la, longitude |-> lo]) :
     n \in {S_empty, In_Blank, In_Moto, In_MotoPadded},
     o \in {S_empty, In_Op}, b \in {S_empty, In_BMW},
     la \in {S_empty, In_52_5, In_0_0, In_abc, In_2_35pad, In_nan},
     lo \in {S_empty, In_13_4, In_neg0, In_1_2_3}}

LocationRows ==
  {WithCells([name |-> In_Moto, latitude |-> In_52_5, longitude |-> In_13_4,
              address_city |-> ci, address_country |-> co,
              source_country |-> sc, address_street |-> st,
              address_housenumber |-> hn]) :
     ci \in {S_empty, In_Berlin, In_Blank},
     co \in {S_empty, In_Blank, In_de, S_FR, In_XX},
     sc \in {S_empty, In_France, PyNone},
     st \in {S_empty, In_MainSt}, hn \in {S_empty, In_12}}

TypeRows ==
  {WithCells([name |-> In_Moto, latitude |-> In_52_5, longitude |-> In_13_4,
              shop_type |-> sh, amenity |-> am, craft |-> cr,
              phone |-> ph, mobile |-> mo]) :
     sh \in {S_empty, S_motorcycle, S_motorcycle_repair, In_Car_Repair},
     am \in {S_empty, In_car_repair, PyNone},
     cr \in {S_empty, S_motorcycle_repair, In_car_repair},
     ph \in {S_empty, In_555}, mo \in {S_empty, In_666}}

ParseRows == NameCoordRows \cup LocationRows \cup TypeRows

\* rows of the CSV files given to convert_csv_to_json
NamedCell ==
  {[name |-> In_Moto, address_city |-> In_Berlin, address_country |-> In_de],
   [name |-> In_Blank, address_city |-> In_Munich, address_country |-> S_DE],
   [source_country |-> In_France]}

CoordCells ==
  {[latitude |-> In_52_5, longitude |-> In_13_4],
   [latitude |-> In_52_5, longitude |-> S_empty],
   [latitude |-> In_abc,  longitude |-> In_13_4],
   [latitude |-> In_0_0,  longitude |-> In_13_4],
   [latitude |-> S_empty, longitude |-> S_empty]}

CsvRows ==
  {WithCells(n @@ c) : n \in NamedCell, c \in CoordCells}
  \cup
  {WithCells([operator |-> In_Op, latitude |-> In_52_5, longitude |-> In_13_4,
              address_city |-> In_Paris, address_country |-> S_FR]),
   WithCells([brand |-> In_BMW, latitude |-> In_52_5, longitude |-> In_13_4]),
   WithCells([name |-> In_Moto, latitude |-> In_52_5, longitude |-> In_13_4,
              source_country |-> PyNone])}

\* records given to build_countries_dict alone: only the city key is read
IndexShops ==
  {[city |-> c] :
     c \in {In_BerlinGermany, In_MunichGermany, In_UnknownCityFrance,
            In_ParisFrance, In_NoSeparator, In_ThreeParts, In_EmptyCity,
            In_EmptyCountry}}
  \cup {[name |-> In_Moto]}

\* an output file left by an earlier run
OldOutput ==
  [exists |-> TRUE, shops |-> <<[city |-> In_ParisFrance]>>,
   countries |-> <<<<In_France, <<In_Paris>>>>>>]

(***************************************************************************)
(* Specifications                                                          *)
(***************************************************************************)
\* values of the variables a specification does not use
IdleClassifier == tags = <<>> /\ verdict = FALSE

IdleNormalizer == row = <<>> /\ parsed = NoShop

IdleConversion ==
  /\ input_exists = FALSE /\ rows = <<>> /\ skip_unnamed = TRUE /\ i = 0
  /\ skipped_count = 0 /\ output = NoOutput

IdleMigrator ==
  /\ stats = ZeroStats /\ transformed_shops = <<>> /\ batch_size = 1
  /\ db = <<>>

\* a run of convert_csv_to_json(input_csv, output_json, skip_unnamed)
Init ==
  /\ pc = "idle"
  /\ IdleClassifier /\ IdleNormalizer /\ IdleMigrator
  /\ input_exists \in BOOLEAN
  /\ rows \in (IF input_exists THEN BoundedSeq(CsvRows, MaxRows) ELSE {<<>>})
  /\ skip_unnamed \in BOOLEAN
  /\ i = 0 /\ shops = <<>> /\ skipped_count = 0 /\ countries = <<>>
  /\ output \in {NoOutput, OldOutput}

Next ==
  \/ CheckInput
  \/ ReadCsv
  \/ ProcessRow
  \/ FinishLoop
  \/ BuildIndex
  \/ WriteJson

Spec == Init /\ [][Next]_vars

\* the positions of a run of convert_csv_to_json
Phases ==
  {"idle", "loading", "processing", "indexing", "writing", "done", "failed"}

\* the run has not returned or exited
Running == pc \notin {"done", "failed"}

\* a step of the run, seen through pc and i alone
Advance == Running /\ \E p \in Phases, n \in {i, i + 1} : pc' = p /\ i' = n

\* the run under the scheduling of a sequential program: it takes its next
\* step whenever it has one.  Next has a step exactly while Running, and
\* each step of Next changes pc or i, so this is weak fairness of Next; it
\* is stated on pc and i, which decide whether a step is due without the
\* row being parsed.
FairSpec == Spec /\ WF_<<pc, i>>(Advance)

\* a call of _is_motorcycle_repair_shop(tags)
Classify ==
  /\ pc = "classify"
  /\ verdict' = is_motorcycle_repair_shop(tags)
  /\ pc' = "classified"
  /\ UNCHANGED <<migrator, tags, row, parsed, input_exists, rows, skip_unnamed, i, shops,
                 skipped_count, countries, output>>

ClassifyInit ==
  /\ pc = "classify"
  /\ tags \in TagMaps /\ verdict = FALSE
  /\ IdleNormalizer /\ IdleConversion /\ IdleMigrator
  /\ shops = <<>> /\ countries = <<>>

ClassifyNext == Classify

SpecClassify == ClassifyInit /\ [][ClassifyNext]_vars

\* a call of parse_csv_row(row)
Normalize ==
  /\ pc = "normalize"
  /\ parsed' = parse_csv_row(row)
  /\ pc' = "normalized"
  /\ UNCHANGED <<migrator, tags, verdict, row, input_exists, rows, skip_unnamed, i, shops,
                 skipped_count, countries, output>>

ParseInit ==
  /\ pc = "normalize"
  /\ row \in ParseRows /\ parsed = NoShop
  /\ IdleClassifier /\ IdleConversion /\ IdleMigrator
  /\ shops = <<>> /\ countries = <<>>

ParseNext == Normalize

SpecParse == ParseInit /\ [][ParseNext]_vars

\* a call of build_countries_dict(shops)
CallBuildIndex ==
  /\ pc = "index"
  /\ countries' = build_countries_dict(shops)
  /\ pc' = "indexed"
  /\ UNCHANGED <<migrator, tags, verdict, row, parsed, input_exists, rows, skip_unnamed,
                 i, shops, skipped_count, output>>

IndexInit ==
  /\ pc = "index"
  /\ shops \in BoundedSeq(IndexShops, MaxShops) /\ countries = <<>>
  /\ IdleClassifier /\ IdleNormalizer /\ IdleConversion /\ IdleMigrator

IndexNext == CallBuildIndex

SpecIndex == IndexInit /\ [][IndexNext]_vars

\* records of the directory_data.json given to migrate_shops: records as
\* convert_csv_to_json writes them, and edited ones with a null city or a
\* null latitude
StoredShop ==
  parse_csv_row(WithCells([name |-> In_Moto, latitude |-> In_52_5,
                           longitude |-> In_13_4, address_city |-> In_Berlin,
                           address_country |-> In_de,
                           address_street |-> In_MainSt])).shop

SparseShop ==
  parse_csv_row(WithCells([brand |-> In_BMW, latitude |-> In_2_35pad,
                           longitude |-> In_13_4])).shop

MigrateShops ==
  {StoredShop, SparseShop,
   [StoredShop EXCEPT !.city = PyNone],
   [StoredShop EXCEPT !.latitude = NoneFloat]}

MaxBatchSize == 2

\* a call of SupabaseMigrator.migrate_shops(shops, batch_size) on a new
\* migrator and an empty shops table
MigrateInit ==
  /\ pc = "transforming"
  /\ shops \in BoundedSeq(MigrateShops, MaxShops)
  /\ batch_size \in 1..MaxBatchSize
  /\ stats = ZeroStats /\ transformed_shops = <<>> /\ db = <<>>
  /\ IdleClassifier /\ IdleNormalizer
  /\ input_exists = FALSE /\ rows = <<>> /\ skip_unnamed = TRUE /\ i = 0
  /\ skipped_count = 0 /\ output = NoOutput /\ countries = <<>>

MigrateNext ==
  \/ TransformShop
  \/ StartUpload
  \/ UploadBatch
  \/ PrintSummary

SpecMigrate == MigrateInit /\ [][MigrateNext]_vars

(***************************************************************************)
(* Properties                                                              *)
(***************************************************************************)
\* tag k is present with value v
HasTag(t, k, v) == k \in DOMAIN t /\ t[k] = v

\* the clauses of the classification rule
RepairClauses(t) ==
  \/ HasTag(t, "shop", S_motorcycle_repair)
  \/ HasTag(t, "shop", S_motorcycle)
  \/ HasTag(t, "amenity", S_motorcycle_repair)
  \/ HasTag(t, "craft", S_motorcycle_repair)
  \/ /\ HasTag(t, "service:vehicle:motorcycle", S_yes)
     /\ \/ HasTag(t, "service:vehicle:repair", S_yes)
        \/ HasTag(t, "repair", S_yes)
        \/ ("craft" \in DOMAIN t /\ Contains(t["craft"], S_repair))

\* C1: _is_motorcycle_repair_shop returns true exactly when one of the
\* clauses holds (shop is motorcycle_repair or motorcycle; amenity is
\* motorcycle_repair; craft is motorcycle_repair; service:vehicle:motorcycle
\* is yes together with service:vehicle:repair = yes, repair = yes or a craft
\* containing "repair"); shop = motorcycle_repair gives true whatever the
\* other tags are, and a mapping with none of these tags gives false.
C1_ClassifierRule ==
  pc = "classified" =>
    /\ verdict <=> RepairClauses(tags)
    /\ HasTag(tags, "shop", S_motorcycle_repair) => verdict
    /\ DOMAIN tags \cap TagKeys = {} => ~verdict

\* C1 witness: an element accepted through the service branch alone, by a
\* craft value that contains, but is not, "repair"
C1_Witness ==
  /\ pc = "classified" /\ verdict
  /\ DOMAIN tags = {"service:vehicle:motorcycle", "craft"}
  /\ tags["craft"] = In_car_repair

\* the row has no name, no operator and no brand
NoNameCells(r) ==
  ~Truthy(Get(r, "name")) /\ ~Truthy(Get(r, "operator")) /\ ~Truthy(Get(r, "brand"))

\* cell k of the row holds a number
NumberCell(r, k) ==
  Truthy(Get(r, k)) /\ ParseFloat(r[k]).ok /\ ParseFloat(r[k]).val.kind = "num"

\* C2: a row with no name, no operator and no brand is normalized to the
\* name sentinel; with valid coordinates the run skips it when skip_unnamed
\* is set and accepts it when skip_unnamed is not set.  A record accepted
\* from a row without a name carries the operator, or the brand when the
\* operator is missing too.
C2_UnnamedFilter ==
  [][(pc = "processing" /\ i < Len(rows))
     => LET r == rows[i + 1]
        IN /\ (/\ NoNameCells(r)
               /\ NumberCell(r, "latitude") /\ NumberCell(r, "longitude"))
              => IF skip_unnamed
                 THEN shops' = shops /\ skipped_count' = skipped_count + 1
                 ELSE /\ Len(shops') = Len(shops) + 1
                      /\ shops'[Len(shops')].name = S_UnnamedShop
                      /\ skipped_count' = skipped_count
           /\ (~Truthy(Get(r, "name")) /\ Len(shops') = Len(shops) + 1)
              => shops'[Len(shops')].name =
                   IF Truthy(Get(r, "operator")) THEN Strip(r["operator"])
                   ELSE IF Truthy(Get(r, "brand")) THEN Strip(r["brand"])
                   ELSE S_UnnamedShop]_vars

\* C3: the record returned by parse_csv_row has a non-empty name, also for
\* rows whose name, operator or brand is only whitespace.
C3_NameNonEmpty ==
  (pc = "normalized" /\ ~parsed.raised) => parsed.shop.name # <<>>

\* the coordinate is present in the record
Present(f) == f.kind # "None"

\* C4 as stated: the record returned by parse_csv_row has latitude and
\* longitude both present or both absent.
C4_BothOrNeither ==
  (pc = "normalized" /\ ~parsed.raised) =>
    (Present(parsed.shop.latitude) <=> Present(parsed.shop.longitude))

\* C4 amended: parse_csv_row fills each coordinate on its own: the latitude
\* of the record is present exactly when the latitude cell is non-empty, and
\* the longitude exactly when the longitude cell is non-empty; so a row with
\* one cell filled gives a record with exactly one coordinate.
C4_EachCoordinateFromItsCell ==
  (pc = "normalized" /\ ~parsed.raised) =>
    /\ Present(parsed.shop.latitude) <=> Truthy(Get(row, "latitude"))
    /\ Present(parsed.shop.longitude) <=> Truthy(Get(row, "longitude"))

\* C4 witness: a record with a latitude and no longitude
C4_Witness ==
  /\ pc = "normalized" /\ ~parsed.raised
  /\ Present(parsed.shop.latitude) /\ ~Present(parsed.shop.longitude)

\* the row has a latitude cell and no longitude cell
LatitudeOnly(r) == Truthy(Get(r, "latitude")) /\ ~Truthy(Get(r, "longitude"))

\* C5: a row with latitude present and longitude absent is never added to
\* the accepted records, whatever skip_unnamed is, and is counted as skipped.
C5_LatitudeOnlySkipped ==
  [][(pc = "processing" /\ i < Len(rows) /\ LatitudeOnly(rows[i + 1]))
     => /\ shops' = shops
        /\ skipped_count' = skipped_count + 1
        /\ pc' = "processing"]_vars

\* C5 witness: a named row with a parsable latitude and no longitude has
\* been processed with the unnamed filter off
C5_Witness ==
  /\ pc = "processing" /\ i = 1 /\ ~skip_unnamed
  /\ LatitudeOnly(rows[1]) /\ NumberCell(rows[1], "latitude")
  /\ Get(rows[1], "name") = In_Moto
  /\ skipped_count = 1 /\ shops = <<>>

\* a coordinate cell is filled with something float() rejects
UnparsableCoordinate(r) ==
  \E k \in {"latitude", "longitude"} : Truthy(Get(r, k)) /\ ~ParseFloat(r[k]).ok

\* C6 as stated: parse_csv_row never raises; with an unparsable coordinate
\* it returns a record whose coordinates are absent.
C6_FailsClosed ==
  (pc = "normalized" /\ UnparsableCoordinate(row)) =>
    /\ ~parsed.raised
    /\ ~Present(parsed.shop.latitude) /\ ~Present(parsed.shop.longitude)

\* C6 amended: with an unparsable latitude or longitude parse_csv_row raises
\* and returns no record.
C6_UnparsableCoordinateRaises ==
  (pc = "normalized" /\ UnparsableCoordinate(row)) => parsed.raised

\* C6 witness: parse_csv_row has been called on a row whose latitude is text
C6_Witness ==
  pc = "normalized" /\ Get(row, "latitude") = In_abc /\ parsed.raised

\* the list without its k-th element
RemoveAt(s, k) == SubSeq(s, 1, k - 1) \o SubSeq(s, k + 1, Len(s))

\* C7: with a malformed row at any position the run does not fail; its
\* result is the result for the rows without the malformed one, plus one skip.
C7_MalformedRowOnlySkipped ==
  /\ input_exists => pc # "failed"
  /\ pc = "done" =>
       \A k \in 1..Len(rows) :
         parse_csv_row(rows[k]).raised =>
           LET rest == run_rows(RemoveAt(rows, k), skip_unnamed)
           IN /\ shops = rest.shops
              /\ skipped_count = rest.skipped_count + 1
              /\ output.shops = rest.shops

\* C7 witness: a run is done whose first row was malformed and whose second
\* row was accepted
C7_Witness ==
  /\ pc = "done" /\ Len(rows) = 2
  /\ parse_csv_row(rows[1]).raised
  /\ Len(shops) = 1 /\ skipped_count = 1

\* C8: after each row, and at the end of the run, accepted + skipped is the
\* number of rows considered; at the end that is every row.
C8_AcceptedPlusSkipped ==
  /\ pc \in {"processing", "indexing", "writing", "done"} =>
       Len(shops) + skipped_count = i
  /\ pc \in {"indexing", "writing", "done"} => i = Len(rows)

\* C8 witness: a finished run with an accepted row and a row skipped by an
\* exception
C8_Witness ==
  /\ pc = "done" /\ Len(shops) = 1 /\ skipped_count = 1
  /\ \E k \in 1..Len(rows) : parse_csv_row(rows[k]).raised

\* C9: the index never lists "Unknown City"; for "Berlin, Germany",
\* "Munich, Germany", "Unknown City, France" it is {"Germany": ["Berlin",
\* "Munich"]}.
C9_UnknownCityNotIndexed ==
  pc = "indexed" =>
    /\ \A k \in 1..Len(countries) :
         \A c \in 1..Len(countries[k][2]) : countries[k][2][c] # S_UnknownCity
    /\ shops = <<[city |-> In_BerlinGermany], [city |-> In_MunichGermany],
                 [city |-> In_UnknownCityFrance]>>
         => countries = <<<<S_Germany, <<In_Berlin, In_Munich>>>>>>

\* C10: every country of the index has at least one city.
C10_NoEmptyCountry ==
  pc = "indexed" => \A k \in 1..Len(countries) : Len(countries[k][2]) >= 1

\* C10 witness: an index with a country, built from records one of which
\* names a country and no city
C10_Witness ==
  /\ pc = "indexed" /\ Len(countries) >= 1
  /\ \E k \in 1..Len(shops) : GetOr(shops[k], "city", S_empty) = In_EmptyCity

\* the rearrangements of a list
Rearrangements(s) ==
  {[k \in 1..Len(s) |-> s[f[k]]] :
     f \in {g \in [1..Len(s) -> 1..Len(s)] :
              \A a, b \in 1..Len(s) : a # b => g[a] # g[b]}}

\* the list of str is strictly ascending (so it has no duplicate)
StrictlyAscending(s) == \A k \in 1..(Len(s) - 1) : StrLess(s[k], s[k + 1])

\* C11: build_countries_dict gives the same index for every permutation of
\* the records; country keys are in ascending order, each country's cities
\* are in ascending order, and no city is listed twice for a country.
C11_IndexOrderIndependent ==
  pc = "indexed" =>
    /\ \A p \in Rearrangements(shops) : build_countries_dict(p) = countries
    /\ StrictlyAscending([k \in 1..Len(countries) |-> countries[k][1]])
    /\ \A k \in 1..Len(countries) : StrictlyAscending(countries[k][2])

\* C11 witness: an index built from records that name the countries out of
\* order and one city twice
C11_Witness ==
  /\ pc = "indexed"
  /\ shops = <<[city |-> In_MunichGermany], [city |-> In_ParisFrance],
               [city |-> In_MunichGermany]>>
  /\ countries = <<<<In_France, <<In_Paris>>>>, <<S_Germany, <<In_Munich>>>>>>

\* C12: the coordinate filter drops a record only when its latitude or
\* longitude is absent: a normalized record that passes the unnamed filter
\* and has both coordinates present, zero included, is accepted.
C12_PresentCoordinatesPass ==
  [][(pc = "processing" /\ i < Len(rows))
     => LET p == parse_csv_row(rows[i + 1])
        IN (/\ ~p.raised
            /\ ~(skip_unnamed /\ p.shop.name \in {S_UnnamedShop, <<>>})
            /\ Present(p.shop.latitude) /\ Present(p.shop.longitude))
           => shops' = Append(shops, p.shop)]_vars

\* s ends with suf
EndsWith(s, suf) ==
  Len(s) >= Len(suf) /\ SubSeq(s, Len(s) - Len(suf) + 1, Len(s)) = suf

\* the text of a cell without surrounding whitespace; empty when the cell is
\* missing
CellText(r, k) == Strip(GetOr(r, k, S_empty))

\* the country the precedence rule gives: the country tag when it has text
\* (the full name for a table code in either case, else the text itself),
\* else the source_country hint, else nothing
CountryByPrecedence(r) ==
  LET tag  == CellText(r, "address_country")
      hint == CellText(r, "source_country")
  IN IF tag # <<>>
     THEN IF \E k \in 1..Len(country_map) : country_map[k][1] = Upper(tag)
          THEN country_map[CHOOSE k \in 1..Len(country_map) :
                             country_map[k][1] = Upper(tag)][2]
          ELSE tag
     ELSE hint

\* C13: the country of the record is the explicit country tag when present
\* (full name for one of the 27 table codes, unchanged otherwise; the
\* source_country hint is then ignored), the source_country hint when no
\* country tag is present, and empty when neither is present.  The country
\* is read off the end of the composed city string, where an empty country
\* shows as "Unknown Country".
C13_CountryPrecedence ==
  (pc = "normalized" /\ ~parsed.raised) =>
    /\ Len(country_map) = 27
    /\ EndsWith(parsed.shop.city,
                S_CommaSpace \o (IF CountryByPrecedence(row) = <<>>
                                 THEN S_UnknownCountry
                                 ELSE CountryByPrecedence(row)))

\* C13 witness: a row with the country tag "de" and the hint "France" has
\* been normalized to a German location
C13_Witness ==
  /\ pc = "normalized" /\ ~parsed.raised
  /\ Get(row, "address_country") = In_de /\ Get(row, "source_country") = In_France
  /\ EndsWith(parsed.shop.city, S_CommaSpace \o S_Germany)

C15_Address ==
  (pc = "normalized" /\ ~parsed.raised) =>
    LET hasStreet == Truthy(Get(row, "address_street"))
        hasNumber == Truthy(Get(row, "address_housenumber"))
    IN /\ (hasStreet /\ hasNumber) =>
            parsed.shop.address =
              row["address_street"] \o <<" ">> \o row["address_housenumber"]
       /\ (hasStreet /\ ~hasNumber) => parsed.shop.address = row["address_street"]
       /\ ~hasStreet => parsed.shop.address = S_AddressNotAvailable

\* C15 witness: a row with a house number and no street has been normalized
C15_Witness ==
  /\ pc = "normalized" /\ ~parsed.raised
  /\ ~Truthy(Get(row, "address_street"))
  /\ Get(row, "address_housenumber") = In_12
  /\ parsed.shop.address = S_AddressNotAvailable

\* cell k of the row is the text v
CellIs(r, k, v) == k \in DOMAIN r /\ r[k] = v

\* cell k of the row contains "repair" in any case
CellHasRepair(r, k) ==
  k \in DOMAIN r /\ r[k] # PyNone /\ Contains(Lower(r[k]), S_repair)

\* C16: the business type is, by first match, "Motorcycle Repair Shop"
\* when shop, amenity or craft is motorcycle_repair, "Motorcycle Dealership"
\* when shop is motorcycle, "Repair Service" when shop or amenity contains
\* "repair" in any case, else "Motorcycle Shop"; it is always one of the four.
C16_BusinessType ==
  (pc = "normalized" /\ ~parsed.raised) =>
    /\ parsed.shop.business_type =
         (IF \/ CellIs(row, "shop_type", S_motorcycle_repair)
             \/ CellIs(row, "amenity", S_motorcycle_repair)
             \/ CellIs(row, "craft", S_motorcycle_repair)
          THEN S_MotorcycleRepairShop
          ELSE IF CellIs(row, "shop_type", S_motorcycle)
          THEN S_MotorcycleDealership
          ELSE IF CellHasRepair(row, "shop_type") \/ CellHasRepair(row, "amenity")
          THEN S_RepairService
          ELSE S_MotorcycleShop)
    /\ parsed.shop.business_type \in
         {S_MotorcycleRepairShop, S_MotorcycleDealership, S_RepairService,
          S_MotorcycleShop}

\* C16 witness: a row whose shop type is "Car_Repair" has been normalized to
\* a repair service
C16_Witness ==
  /\ pc = "normalized" /\ ~parsed.raised
  /\ Get(row, "shop_type") = In_Car_Repair
  /\ parsed.shop.business_type = S_RepairService

\* C17: when the input file does not exist the run goes from idle straight
\* to failed: the only step it takes is that one, and the step processes no
\* row, builds no index and leaves the output file as it was.
C17_MissingInputFails ==
  [][~input_exists
     => /\ pc = "idle" /\ pc' = "failed"
        /\ i' = i /\ shops' = shops /\ skipped_count' = skipped_count
        /\ countries' = countries
        /\ output' = output]_vars

\* C17 witness: a run without input has failed, and the output file of an
\* earlier run is still there
C17_Witness ==
  /\ pc = "failed" /\ ~input_exists
  /\ i = 0 /\ shops = <<>> /\ countries = <<>>
  /\ output = OldOutput

\* C18: after migrate_shops every input shop is accounted for in the
\* summary: shops_migrated + shops_failed is the number of input shops, a
\* record whose storing failed being in the failed count.
C18_EveryShopAccounted ==
  pc = "migrated" => stats.shops_migrated + stats.shops_failed = Len(shops)

\* the row passes the try block and both filters of the loop
Accepted(r) == loop_body(<<>>, 0, r, skip_unnamed).shops # <<>>

\* the records of the accepted rows among rs, in the order of the rows
RecordsInRowOrder(rs) ==
  LET acc == SelectSeq(rs, Accepted)
  IN [k \in 1..Len(acc) |-> parse_csv_row(acc[k]).shop]

\* C19: the accepted list only grows by appending.  During and after the
\* loop it holds the records of the accepted rows read so far in the order
\* of their rows; a step keeps it or appends the record of the row just
\* read, never removing, moving or changing an earlier record; and the
\* written document holds exactly that list.
C19_AppendOnly ==
  /\ [](pc \in {"processing", "indexing", "writing", "done"} =>
          shops = RecordsInRowOrder(SubSeq(rows, 1, i)))
  /\ [](pc = "done" => output.shops = RecordsInRowOrder(rows))
  /\ [][pc # "loading" =>
          /\ Len(shops') \in {Len(shops), Len(shops) + 1}
          /\ SubSeq(shops', 1, Len(shops)) = shops
          /\ Len(shops') = Len(shops) + 1 =>
               /\ pc = "processing"
               /\ shops'[Len(shops')] = parse_csv_row(rows[i + 1]).shop]_vars

C19_Witness ==
  /\ pc = "done" /\ Len(shops) = 2 /\ shops[1] # shops[2]
  /\ shops[1] = parse_csv_row(rows[1]).shop
  /\ output.shops = shops

\* the steps between phases that a run may take
PhaseSteps ==
  {<<"idle", "loading">>, <<"idle", "failed">>, <<"loading", "processing">>,
   <<"processing", "processing">>, <<"processing", "indexing">>,
   <<"indexing", "writing">>, <<"writing", "done">>}

\* a step from one phase to the next
PhaseStep == (<<pc, pc'>>) \in PhaseSteps

\* C20: a run with an available source goes through loading, processing,
\* indexing and done in that order and never back; the index is built in one
\* step, taken only when every row has been processed, from the final
\* accepted list, and is not touched before or after; the written document
\* pairs that list with its index; and the run eventually reaches done, the
\* malformed rows only being counted.
C20_PhasesInOrder ==
  /\ [][PhaseStep]_vars
  /\ [][/\ countries' # countries => pc = "indexing"
        /\ pc = "indexing" =>
             /\ i = Len(rows)
             /\ shops = run_rows(rows, skip_unnamed).shops
             /\ countries' = build_countries_dict(shops)
             /\ pc' = "writing"
        /\ pc \in {"indexing", "writing", "done"} => shops' = shops]_vars
  /\ [](pc = "done" =>
          /\ output.shops = run_rows(rows, skip_unnamed).shops
          /\ output.countries = build_countries_dict(output.shops))
  /\ [](input_exists => pc # "failed")
  /\ (input_exists ~> pc = "done")

C20_Witness ==
  /\ pc = "done" /\ input_exists /\ Len(rows) = 2
  /\ parse_csv_row(rows[1]).raised
  /\ output.exists /\ output.countries # <<>>
  /\ output.countries = build_countries_dict(shops)

\* the record has both coordinates and, under skip_unnamed, a real name
Complete(s) ==
  /\ Present(s.latitude) /\ Present(s.longitude)
  /\ skip_unnamed => (s.name # <<>> /\ s.name # S_UnnamedShop)

\* C21: at every point of a run every record of the accepted list, and of
\* the written document, has latitude and longitude present and, when
\* skip_unnamed is set, a name that is neither empty nor "Unnamed Shop".
C21_AcceptedComplete ==
  /\ \A k \in 1..Len(shops) : Complete(shops[k])
  /\ pc = "done" => \A k \in 1..Len(output.shops) : Complete(output.shops[k])

C21_Witness ==
  /\ pc = "done" /\ skip_unnamed /\ Len(rows) = 2
  /\ Len(shops) = 1 /\ skipped_count = 1
  /\ \E k \in 1..2 :
       LET p == parse_csv_row(rows[k])
       IN /\ ~p.raised
          /\ \/ ~Present(p.shop.longitude)
             \/ p.shop.name = S_UnnamedShop

=============================================================================
